---------------------------- MODULE Spec2Model ----------------------------
(***************************************************************************)
(* Recruitment dashboard (src/streamlit_app.py): the KPI formulas, the     *)
(* period filter, the per-recruiter aggregation, the rolling goal engine   *)
(* and the time-bounded table cache behind the render cycle.               *)
(*                                                                         *)
(* Numbers.  A Python number returned by a KPI function is modelled as a   *)
(* record [tipo, decimos]: tipo is "int" or "float", decimos is the value  *)
(* multiplied by ten, so one decimal is kept exactly.  The quotient        *)
(* a / b of two Python numbers is carried as the exact fraction; round()   *)
(* is round-half-to-even, as Python's is.                                  *)
(***************************************************************************)
EXTENDS Integers, Sequences, FiniteSets, TLC

VARIABLES
    fn, args, ret,          \* the last call of a KPI function and its result
    df, tipo, periodo,      \* a loaded record set and a period specifier
    resultado,              \* what filtrar_por_periodo returned for them
    periodos,               \* what get_periodos_disponibles returned for them
    falla, st_error,        \* how the fetch behind df failed; the error shown
    historial,              \* weekly history per recruiter, oldest first
    metas_derivadas,        \* the rolling goals computed from it
    datos_periodo,          \* the daily records the department view shows
    agregado,               \* their aggregation by recruiter (the ranking)
    cache,                  \* st.cache_data: the entries of get_airtable_data
    now,                    \* the clock, in seconds
    pc,                     \* where the script run (the render cycle) is
    paso,                   \* which of the four loads of main is next
    en_vuelo,               \* the tables with a remote fetch in flight
    cargado,                \* main's four record sets, as loaded this cycle
    clic,                   \* this run was started by the refresh button
    boton_visible,          \* the page on screen shows the refresh button
    dashboard_tipo, vista,  \* the sidebar's selections
    salida,                 \* what the last finished cycle showed
    fetches,                \* history: remote fetches per table, this cycle
    servido,                \* history: how the last load was served
    tras_refresh,           \* history: this cycle is the refresh's st.rerun()
    tablas,                 \* four record sets as main has loaded them
    render                  \* the selections made on them, and what main drew

kpiVars == <<fn, args, ret>>
filtroVars == <<df, tipo, periodo, resultado, periodos, falla, st_error>>
metasVars == <<historial, metas_derivadas>>
aggVars == <<datos_periodo, agregado>>
cicloVars == <<cache, now, pc, paso, en_vuelo, cargado, clic, boton_visible,
               dashboard_tipo, vista, salida, fetches, servido, tras_refresh>>
vistaVars == <<tablas, render>>
vars == <<fn, args, ret, df, tipo, periodo, resultado, periodos, falla,
          st_error, historial, metas_derivadas, datos_periodo, agregado, cache, now, pc, paso,
          en_vuelo, cargado, clic, boton_visible, dashboard_tipo, vista,
          salida, fetches, servido, tras_refresh, tablas, render>>

(***************************************************************************)
(* Bounds of the KPI inputs.                                               *)
(***************************************************************************)
MaxNum == 10        \* numerators range over -MinNeg .. MaxNum
MinNeg == 2
MaxDen == 20        \* denominators range over 0 .. MaxDen
MaxDias == 7        \* elapsed / total units of a projection, 0 .. MaxDias

Numeradores == (0 - MinNeg)..MaxNum
Denominadores == 0..MaxDen
Unidades == 0..MaxDias

(***************************************************************************)
(* Python values.                                                          *)
(***************************************************************************)
PyInt(n) == [tipo |-> "int", decimos |-> 10 * n]
PyFloat(d) == [tipo |-> "float", decimos |-> d]
ZeroDivisionError == [tipo |-> "ZeroDivisionError", decimos |-> 0]

\* num/den rounded to the nearest integer, ties to the even one (den > 0).
RoundHalfEven(num, den) ==
    LET q == num \div den
        r == num - q * den
    IN  IF 2 * r > den THEN q + 1
        ELSE IF 2 * r < den THEN q
        ELSE IF q % 2 = 0 THEN q ELSE q + 1

\* round(num/den, ndigits) for ndigits in {0, 1}, in tenths; a float.
PyRound(num, den, ndigits) ==
    LET n == IF den < 0 THEN 0 - num ELSE num
        d == IF den < 0 THEN 0 - den ELSE den
    IN  IF ndigits = 1 THEN PyFloat(RoundHalfEven(n * 10, d))
        ELSE PyFloat(10 * RoundHalfEven(n, d))

\* a / b of Python: raises on b = 0, else the value handed to round().
PyDivRound(num, den, factor, ndigits) ==
    IF den = 0 THEN ZeroDivisionError ELSE PyRound(num * factor, den, ndigits)

(***************************************************************************)
(* FUNCIONES DE CALCULO                                                    *)
(***************************************************************************)
calcular_efectividad_sin_guarda(firmados, meta) ==
    PyDivRound(firmados, meta, 100, 1)

calcular_efectividad(firmados, meta) ==
    IF meta = 0 THEN PyInt(0) ELSE PyDivRound(firmados, meta, 100, 1)

calcular_productividad_sin_porcentaje(firmados, contactos) ==
    IF contactos = 0 THEN PyInt(0) ELSE PyDivRound(firmados, contactos, 1, 1)

calcular_productividad(firmados, contactos) ==
    IF contactos = 0 THEN PyInt(0) ELSE PyDivRound(firmados, contactos, 100, 1)

calcular_calidad(firmados, entrevistas) ==
    IF entrevistas = 0 THEN PyInt(0) ELSE PyDivRound(firmados, entrevistas, 100, 1)

proyeccion_semanal_un_decimal(acumulado, dias_transcurridos, dias_totales) ==
    IF dias_transcurridos = 0 THEN PyInt(0)
    ELSE PyDivRound(acumulado, dias_transcurridos, dias_totales, 1)

proyeccion_semanal(acumulado, dias_transcurridos, dias_totales) ==
    IF dias_transcurridos = 0 THEN PyInt(0)
    ELSE PyDivRound(acumulado, dias_transcurridos, dias_totales, 0)

(***************************************************************************)
(* Record sets.  A DataFrame is [err, cols, dt, filas]: cols are the       *)
(* columns present, dt the columns of datetime dtype (the others hold what *)
(* the remote store sent), filas the rows in order, each with its index    *)
(* label idx.  A row carries a value for every field; only those of cols   *)
(* can be read.  err is "ok" for a frame and names the exception for a     *)
(* call that raised instead of returning one.                              *)
(*                                                                         *)
(* Calendar.  A Timestamp is [dia, hora]: dia counts days from Monday      *)
(* 2024-12-30 (the first day of ISO week 1 of 2025), hora is the hour of   *)
(* the day.  2025-01-15 is day 16.  A month is [anio, mes]; its text       *)
(* 'YYYY-MM' is carried as the number YYYYMM.                              *)
(***************************************************************************)
MaxFilas == 2       \* rows of a record set, 0 .. MaxFilas

Contadores ==
    {"Publicaciones", "Contactos", "Citas", "Entrevistas", "Aceptados", "Firmaron"}

Timestamp(d, h) == [dia |-> d, hora |-> h]

SinContadores == [c \in Contadores |-> 0]

Excepcion(nombre) == [err |-> nombre, cols |-> {}, dt |-> {}, filas |-> <<>>]
KeyError == Excepcion("KeyError")
AttributeError == Excepcion("AttributeError")

\* pd.DataFrame(data): no datetime column yet.
DataFrame(columnas, registros) ==
    [err |-> "ok", cols |-> columnas, dt |-> {}, filas |-> registros]

\* df.empty: an axis of length 0.
Empty(d) == Len(d.filas) = 0 \/ d.cols = {}

\* pd.to_datetime on a column: its values become timestamps.
to_datetime(d, c) == [d EXCEPT !.dt = @ \cup {c}]

DiasPorMes == <<31, 28, 31, 30, 31, 30, 31, 31, 30, 31, 30, 31>>

RECURSIVE MesDe(_, _)
\* the month (1..12) holding day-of-year doy (0-based), scanning from month m
MesDe(doy, m) ==
    IF doy < DiasPorMes[m] THEN m ELSE MesDe(doy - DiasPorMes[m], m + 1)

\* Series.dt.date: the calendar date of a timestamp, its time dropped.
DtDateRedondeada(ts) == IF ts.hora >= 12 THEN ts.dia + 1 ELSE ts.dia

DtDate(ts) == ts.dia

\* Series.dt.isocalendar().week (2025 has 52 ISO weeks, 2026 has 53).
IsoWeek(ts) ==
    IF ts.dia < 364 THEN (ts.dia \div 7) + 1 ELSE ((ts.dia - 364) \div 7) + 1

\* Series.dt.to_period('M') (2025 and 2026 have 365 days).
ToPeriodM(ts) ==
    IF ts.dia < 2 THEN [anio |-> 2024, mes |-> 12]
    ELSE [anio |-> 2025 + ((ts.dia - 2) \div 365),
          mes |-> MesDe((ts.dia - 2) % 365, 1)]

\* str(period) and pd.Period(text) for a monthly period.
PeriodStr(per) == per.anio * 100 + per.mes
PdPeriod(texto) == [anio |-> texto \div 100, mes |-> texto % 100]

\* Series.dt.<acc> of one value
Dt(acc, ts) ==
    IF acc = "date" THEN DtDate(ts)
    ELSE IF acc = "isocalendar().week" THEN IsoWeek(ts)
    ELSE ToPeriodM(ts)

RECURSIVE Mascara(_, _, _)
\* the rows of filas at the positions from i on where mask is TRUE
Mascara(filas, mask, i) ==
    IF i > Len(filas) THEN <<>>
    ELSE IF mask[i] THEN <<filas[i]>> \o Mascara(filas, mask, i + 1)
    ELSE Mascara(filas, mask, i + 1)

SeleccionarPrimera(d, mask) ==
    LET todas == Mascara(d.filas, mask, 1)
    IN  [d EXCEPT !.filas = IF todas = <<>> THEN <<>> ELSE <<Head(todas)>>]

\* df[mask]: boolean indexing, the index labels kept.
Seleccionar(d, mask) == [d EXCEPT !.filas = Mascara(d.filas, mask, 1)]

\* df[df[c].dt.<accessor> == value]: KeyError without the column,
\* AttributeError when the column is not of datetime dtype.
FiltrarDt(d, c, acc, valor) ==
    IF c \notin d.cols THEN KeyError
    ELSE IF c \notin d.dt THEN AttributeError
    ELSE Seleccionar(d, [i \in 1..Len(d.filas) |->
                            Dt(acc, d.filas[i][c]) = valor])

(***************************************************************************)
(* FUNCIONES DE CONEXION: get_airtable_data's body, given what the remote  *)
(* store did (table.all() brought the records, or something between        *)
(* Api(...) and pd.DataFrame(data) raised), and the loaders.               *)
(***************************************************************************)
Fallos == {"network", "auth", "missing_table"}

Registros(d) == [excepcion |-> "none", registros |-> d]
Falla(causa) == [excepcion |-> causa, registros |-> Excepcion(causa)]

get_airtable_data_sin_except(respuesta) ==
    [valor |-> respuesta.registros, st_error |-> FALSE]

\* try: return df / except Exception: st.error(...); return pd.DataFrame()
get_airtable_data(respuesta) ==
    IF respuesta.excepcion # "none"
    THEN [valor |-> DataFrame({}, <<>>), st_error |-> TRUE]
    ELSE [valor |-> respuesta.registros, st_error |-> FALSE]

get_metricas_diarias(d) ==
    IF ~Empty(d) /\ "Fecha" \in d.cols THEN to_datetime(d, "Fecha") ELSE d

get_metricas_semanales(d) ==
    IF ~Empty(d)
    THEN IF "Fecha_Inicio" \in d.cols THEN to_datetime(d, "Fecha_Inicio")
         ELSE IF "Fecha" \in d.cols THEN to_datetime(d, "Fecha")
         ELSE d
    ELSE d

(***************************************************************************)
(* FUNCIONES PARA SELECCION DE PERIODOS.  What get_periodos_disponibles    *)
(* returns is [err, lista]: the list, or the exception raised instead.     *)
(***************************************************************************)
RECURSIVE Descendente(_)
\* sorted(values, reverse=True) of distinct numbers
Descendente(S) ==
    IF S = {} THEN <<>>
    ELSE LET m == CHOOSE x \in S : \A y \in S : y <= x
         IN  <<m>> \o Descendente(S \ {m})

Lista(l) == [err |-> "ok", lista |-> l]
ListaError(nombre) == [err |-> nombre, lista |-> <<>>]

\* the value of a period as the list holds it: a month as its text
DtTexto(acc, ts) ==
    IF acc = "to_period('M')" THEN PeriodStr(ToPeriodM(ts)) ELSE Dt(acc, ts)

\* sorted(df[c].unique(), reverse=True)
Unicos(d, c) ==
    Lista(Descendente({d.filas[i][c] : i \in 1..Len(d.filas)}))

\* sorted(df[c].dt.<accessor>.unique(), reverse=True): AttributeError when
\* the column is not of datetime dtype
UnicosDt(d, c, acc) ==
    IF c \notin d.dt THEN ListaError("AttributeError")
    ELSE Lista(Descendente({DtTexto(acc, d.filas[i][c]) :
                               i \in 1..Len(d.filas)}))

get_periodos_disponibles(d, t) ==
    IF Empty(d) THEN Lista(<<>>)
    ELSE IF t = "diario"
    THEN IF "Fecha" \in d.cols THEN UnicosDt(d, "Fecha", "date")
         ELSE Lista(<<>>)
    ELSE IF t = "semanal"
    THEN IF "Semana" \in d.cols THEN Unicos(d, "Semana")
         ELSE IF "Fecha_Inicio" \in d.cols
         THEN UnicosDt(d, "Fecha_Inicio", "isocalendar().week")
         ELSE IF "Fecha" \in d.cols
         THEN UnicosDt(d, "Fecha", "isocalendar().week")
         ELSE Lista(<<>>)
    ELSE IF t = "mensual"
    THEN IF "Fecha_Inicio" \in d.cols
         THEN UnicosDt(d, "Fecha_Inicio", "to_period('M')")
         ELSE IF "Fecha" \in d.cols
         THEN UnicosDt(d, "Fecha", "to_period('M')")
         ELSE Lista(<<>>)
    ELSE Lista(<<>>)

filtrar_por_periodo_fecha_primero(d, periodo_seleccionado, t) ==
    IF Empty(d) THEN d
    ELSE IF t = "diario"
    THEN FiltrarDt(d, "Fecha", "date", periodo_seleccionado)
    ELSE IF t = "semanal"
    THEN IF "Fecha" \in d.dt
         THEN FiltrarDt(d, "Fecha", "isocalendar().week", periodo_seleccionado)
         ELSE IF "Semana" \in d.cols
         THEN Seleccionar(d, [i \in 1..Len(d.filas) |->
                                 d.filas[i].Semana = periodo_seleccionado])
         ELSE FiltrarDt(d, "Fecha", "isocalendar().week", periodo_seleccionado)
    ELSE IF t = "mensual"
    THEN IF "Fecha_Inicio" \in d.cols
         THEN FiltrarDt(d, "Fecha_Inicio", "to_period('M')",
                        PdPeriod(periodo_seleccionado))
         ELSE FiltrarDt(d, "Fecha", "to_period('M')",
                        PdPeriod(periodo_seleccionado))
    ELSE d

filtrar_por_periodo(d, periodo_seleccionado, t) ==
    IF Empty(d) THEN d
    ELSE IF t = "diario"
    THEN FiltrarDt(d, "Fecha", "date", periodo_seleccionado)
    ELSE IF t = "semanal"
    THEN IF "Semana" \in d.cols
         THEN Seleccionar(d, [i \in 1..Len(d.filas) |->
                                 d.filas[i].Semana = periodo_seleccionado])
         ELSE FiltrarDt(d, "Fecha", "isocalendar().week", periodo_seleccionado)
    ELSE IF t = "mensual"
    THEN IF "Fecha_Inicio" \in d.cols
         THEN FiltrarDt(d, "Fecha_Inicio", "to_period('M')",
                        PdPeriod(periodo_seleccionado))
         ELSE FiltrarDt(d, "Fecha", "to_period('M')",
                        PdPeriod(periodo_seleccionado))
    ELSE d

(***************************************************************************)
(* Rolling goal engine (spec section 4.3; its code is not in src/).  The   *)
(* input is each recruiter's weekly records, oldest first.  Per counter:   *)
(* the mean over a trailing window of 2 periods, shifted forward by one    *)
(* period, undefined values resolved to 0; then the goals of Aceptados and *)
(* Firmaron are overwritten with the constant 1.                           *)
(***************************************************************************)
MaxSemanas == 3     \* weekly periods in a recruiter's history, 0 .. MaxSemanas

NaN == [tipo |-> "nan", decimos |-> 0]

Fijados == {"Aceptados", "Firmaron"}

\* rolling(2).mean() at position p: undefined until the window is full
rolling_mean(valores, p) ==
    IF p < 2 THEN NaN ELSE PyFloat(5 * (valores[p - 1] + valores[p]))

shift_ausente(valores, p) == rolling_mean(valores, p)

\* shift(1): position p takes the value computed at p - 1
shift(valores, p) == IF p < 2 THEN NaN ELSE rolling_mean(valores, p - 1)

\* fillna(0)
fillna(v) == IF v = NaN THEN PyFloat(0) ELSE v

\* first pass: the rolling goal of one counter at period p
meta_movil(registros, c, p) ==
    fillna(shift([i \in 1..Len(registros) |-> registros[i][c]], p))

\* second pass: the fixed goals
fijar(c, v) == IF c \in Fijados THEN PyInt(1) ELSE v

\* one goal per recruiter, period and counter
calcular_metas(h) ==
    [r \in DOMAIN h |->
        [p \in 1..Len(h[r]) |->
            [c \in Contadores |-> fijar(c, meta_movil(h[r], c, p))]]]

(***************************************************************************)
(* DASHBOARD DE DEPARTAMENTO: the ranking's aggregation by recruiter,      *)
(* datos_periodo.groupby('Reclutador').agg(columnas_agg).reset_index().    *)
(***************************************************************************)
\* sorted(...) of the recruiter names
OrdenAlfabetico == <<"Ana", "Luis">>

\* the dict columnas_agg: a column is summed only if the input has it
columnas_agg(d) == {c \in {"Firmaron", "Contactos", "Entrevistas"} : c \in d.cols}

RECURSIVE SumaDesde(_, _, _, _)
\* Series.sum() of column c over the rows of recruiter r, from position i
SumaDesde(filas, r, c, i) ==
    IF i > Len(filas) THEN 0
    ELSE (IF filas[i].Reclutador = r THEN filas[i].cnt[c] ELSE 0)
         + SumaDesde(filas, r, c, i + 1)

RECURSIVE PrimeroDesde(_, _, _, _)
PrimeroDesde(filas, r, c, i) ==
    IF i > Len(filas) THEN 0
    ELSE IF filas[i].Reclutador = r THEN filas[i].cnt[c]
    ELSE PrimeroDesde(filas, r, c, i + 1)

agg_first(filas, r, c) == PrimeroDesde(filas, r, c, 1)

\* the aggregation function 'sum' of one group
agg_sum(filas, r, c) == SumaDesde(filas, r, c, 1)

\* the group keys, sorted, each once
claves(d) ==
    SelectSeq(OrdenAlfabetico,
              LAMBDA r : \E i \in 1..Len(d.filas) : d.filas[i].Reclutador = r)

\* groupby('Reclutador').agg(cols).reset_index(): one row per key, the
\* key column and the aggregated columns only, renumbered from 0
groupby_agg(d, columnas) ==
    LET ks == claves(d)
    IN  [err |-> "ok",
         cols |-> {"Reclutador"} \cup columnas,
         dt |-> {},
         filas |-> [k \in 1..Len(ks) |->
                      [idx |-> k - 1, Reclutador |-> ks[k],
                       Fecha |-> Timestamp(0, 0),
                       Fecha_Inicio |-> Timestamp(0, 0), Semana |-> 0,
                       Dias_Generales |-> 0,
                       cnt |-> [c \in Contadores |->
                                  IF c \in columnas
                                  THEN agg_sum(d.filas, ks[k], c) ELSE 0]]]]

\* lines 316-326 and 361-362: no ranking when none of the three is present
agrupar_por_reclutador(d) ==
    IF columnas_agg(d) # {} THEN groupby_agg(d, columnas_agg(d))
    ELSE Excepcion("sin_ranking")

(***************************************************************************)
(* FUNCIONES DE CONEXION A AIRTABLE: get_airtable_data under               *)
(* @st.cache_data(ttl=300).  The cache is a set of entries [key, at,       *)
(* valor, fallo, tabla]: key is made from the call's argument, at is the   *)
(* time the value was stored, valor the DataFrame returned, fallo whether  *)
(* the call reported an error (st.error, replayed with the value), and     *)
(* tabla, kept for the record only, the table the fetch read.              *)
(***************************************************************************)
Ttl == 300

Tablas ==
    {"metricas_diarias", "metricas_semanales", "metas_semanales",
     "config_dias_laborables"}

\* the key st.cache_data makes of the call get_airtable_data(table_name)
clave_sin_argumento(table_name) == "get_airtable_data"

clave(table_name) == table_name

\* an entry can be served while it is younger than the ttl
vigente_siempre(e, t) == TRUE

vigente(e, t) == t - e.at < Ttl

\* the entry a call with this argument is served from, if any
Entradas(c, table_name, t) ==
    {e \in c : e.key = clave(table_name) /\ vigente(e, t)}

guardar_solo_exitos(c, table_name, t, v, error) ==
    IF error THEN {e \in c : e.key # clave(table_name)}
    ELSE {e \in c : e.key # clave(table_name)}
            \cup {[key |-> clave(table_name), at |-> t, valor |-> v,
                   fallo |-> error, tabla |-> table_name]}

\* storing the value a call returned replaces the key's entry
guardar(c, table_name, t, v, error) ==
    {e \in c : e.key # clave(table_name)}
        \cup {[key |-> clave(table_name), at |-> t, valor |-> v,
               fallo |-> error, tabla |-> table_name]}

\* st.cache_data.clear()
clear_expirados(c, t) == {e \in c : vigente(e, t)}

clear(c, t) == {}

\* what table.all() can bring of a table: records, or an exception, which
\* get_airtable_data turns into an empty DataFrame
FilaRemota ==
    [idx |-> 0, Reclutador |-> "Ana", Fecha |-> Timestamp(16, 0),
     Fecha_Inicio |-> Timestamp(14, 0), Semana |-> 3, Dias_Generales |-> 5,
     cnt |-> [c \in Contadores |-> 1]]

ColumnasDe(table_name) ==
    IF table_name = "metricas_diarias" THEN {"Reclutador", "Fecha", "Firmaron"}
    ELSE IF table_name = "metricas_semanales"
    THEN {"Reclutador", "Semana", "Firmaron"}
    ELSE IF table_name = "metas_semanales" THEN {"Reclutador", "Firmaron"}
    ELSE {"Reclutador", "Dias_Generales"}

\* lines 59-66 and 67-69
fetch_ok(table_name) == DataFrame(ColumnasDe(table_name), <<FilaRemota>>)
fetch_fallido == DataFrame({}, <<>>)

(***************************************************************************)
(* APLICACION PRINCIPAL: main loads four record sets, in this order, each  *)
(* by its loader, each loader reading one table.                           *)
(***************************************************************************)
Cargas == <<"metricas_diarias", "metricas_semanales", "metas", "config_dias">>

tabla_de_con_copia(variable) ==
    IF variable = "metricas_diarias" THEN "metricas_diarias"
    ELSE IF variable = "metricas_semanales" THEN "metricas_semanales"
    ELSE IF variable = "metas" THEN "metas_semanales"
    ELSE "metricas_diarias"

\* the table each loader asks get_airtable_data for
tabla_de(variable) ==
    IF variable = "metricas_diarias" THEN "metricas_diarias"
    ELSE IF variable = "metricas_semanales" THEN "metricas_semanales"
    ELSE IF variable = "metas" THEN "metas_semanales"
    ELSE "config_dias_laborables"

\* what each loader does with the frame get_airtable_data returned
cargador(variable, d) ==
    IF variable = "metricas_diarias" THEN get_metricas_diarias(d)
    ELSE IF variable = "metricas_semanales" THEN get_metricas_semanales(d)
    ELSE d

\* lines 931-937: the recruiters the sidebar can offer
hay_reclutadores(c) ==
    \/ ~Empty(c["metricas_diarias"]) /\ "Reclutador" \in c["metricas_diarias"].cols
    \/ ~Empty(c["metricas_semanales"])
         /\ "Reclutador" \in c["metricas_semanales"].cols

\* lines 973-994: the view main enters, or the error it shows instead
despachar(c, dt, v) ==
    IF dt = "Departamento"
    THEN IF ~Empty(c["metricas_diarias"]) THEN "departamento" ELSE "error_vista"
    ELSE IF v = "Diario"
    THEN IF ~Empty(c["metricas_diarias"]) THEN "diario" ELSE "error_vista"
    ELSE IF v = "Semanal"
    THEN IF ~Empty(c["metricas_semanales"]) THEN "semanal" ELSE "error_vista"
    ELSE IF ~Empty(c["metricas_semanales"]) THEN "mensual" ELSE "error_vista"

(***************************************************************************)
(* The dashboard views.  What a view leaves is [fin, linea, ...]: fin is   *)
(* "completa" when the view ran to its end, "aviso" when it showed a       *)
(* warning or error panel and returned, and the name of the exception when *)
(* a statement of it raised (nothing catches it: the script run ends       *)
(* there); linea is the source line where it ended.  The other fields are  *)
(* the values the view computed on its way: the weekly goal used for each  *)
(* recruiter, and the daily view's working days, elapsed days, accumulated *)
(* hires and projection.                                                   *)
(***************************************************************************)
MetaPorDefecto == 25
DiasPorDefecto == 5

Resultado(fin, linea) ==
    [fin |-> fin, linea |-> linea, metas_usadas |-> {},
     dias_laborables |-> 0, dias_transcurridos |-> 0,
     acumulado_semana |-> 0, proyeccion |-> PyInt(0)]

\* date.weekday(): Monday is 0
Weekday(d) == d % 7

\* hoy.replace(day=1)
InicioDeMes(d) ==
    CHOOSE x \in (d - 30)..d :
        /\ ToPeriodM(Timestamp(x, 0)) = ToPeriodM(Timestamp(d, 0))
        /\ ToPeriodM(Timestamp(x - 1, 0)) # ToPeriodM(Timestamp(d, 0))

\* df[df['Reclutador'] == r] on a frame that has the column
DelReclutador(d, r) ==
    Seleccionar(d, [i \in 1..Len(d.filas) |-> d.filas[i].Reclutador = r])

\* df[df['Fecha'].dt.date >= inicio]
DesdeFecha(d, inicio) ==
    IF "Fecha" \notin d.cols THEN KeyError
    ELSE IF "Fecha" \notin d.dt THEN AttributeError
    ELSE Seleccionar(d, [i \in 1..Len(d.filas) |->
                            DtDate(d.filas[i].Fecha) >= inicio])

RECURSIVE SumaColumna(_, _, _)
\* df[c].sum() over the rows from position i on
SumaColumna(filas, c, i) ==
    IF i > Len(filas) THEN 0
    ELSE filas[i].cnt[c] + SumaColumna(filas, c, i + 1)

Valor(v) == [err |-> "ok", valor |-> v]
ValorError(nombre) == [err |-> nombre, valor |-> 0]

\* lines 480-486, 632-636, 783-787: the weekly goal, looked up behind
\* checks of the table and of its columns
meta_con_guardas(metas, reclutador) ==
    IF ~Empty(metas) /\ "Reclutador" \in metas.cols /\ "Firmaron" \in metas.cols
    THEN LET meta_rec == DelReclutador(metas, reclutador)
         IN  IF ~Empty(meta_rec) THEN meta_rec.filas[1].cnt["Firmaron"]
             ELSE MetaPorDefecto
    ELSE MetaPorDefecto

\* lines 332 and 426: metas[metas['Reclutador'] == r]['Firmaron'].values[0]
\* if not metas[metas['Reclutador'] == r].empty else 25; the condition is
\* evaluated first, on the table as it is
meta_del_ranking(metas, reclutador) ==
    IF "Reclutador" \notin metas.cols THEN ValorError("KeyError")
    ELSE LET meta_rec == DelReclutador(metas, reclutador)
         IN  IF Empty(meta_rec) THEN Valor(MetaPorDefecto)
             ELSE IF "Firmaron" \notin metas.cols THEN ValorError("KeyError")
             ELSE Valor(meta_rec.filas[1].cnt["Firmaron"])

\* lines 481 and 488-491
dias_con_guardas(config_dias, reclutador) ==
    IF ~Empty(config_dias) /\ "Reclutador" \in config_dias.cols
    THEN LET config_rec == DelReclutador(config_dias, reclutador)
         IN  IF ~Empty(config_rec) /\ "Dias_Generales" \in config_rec.cols
             THEN config_rec.filas[1].Dias_Generales
             ELSE DiasPorDefecto
    ELSE DiasPorDefecto

(***************************************************************************)
(* DASHBOARD DE DEPARTAMENTO                                               *)
(***************************************************************************)
TiposPeriodo == {"Semana Actual", "Mes Actual", "Ultimos 30 dias", "Historico"}

\* lines 224-238: the records of the period, and the line that reads them
inicio_periodo(tipo_periodo, hoy) ==
    IF tipo_periodo = "Semana Actual" THEN hoy - Weekday(hoy)
    ELSE IF tipo_periodo = "Mes Actual" THEN InicioDeMes(hoy)
    ELSE hoy - 30

linea_periodo(tipo_periodo) ==
    IF tipo_periodo = "Semana Actual" THEN 226
    ELSE IF tipo_periodo = "Mes Actual" THEN 230
    ELSE 234

render_dashboard_departamento(metricas_diarias, metas, tipo_periodo, hoy) ==
    LET datos == IF tipo_periodo = "Historico" THEN metricas_diarias
                 ELSE DesdeFecha(metricas_diarias,
                                 inicio_periodo(tipo_periodo, hoy))
        ranking == agrupar_por_reclutador(datos)
        nombres == {ranking.filas[i].Reclutador : i \in 1..Len(ranking.filas)}
        meta_rec == [r \in nombres |-> meta_del_ranking(metas, r)]
    IN  IF datos.err # "ok" THEN Resultado(datos.err, linea_periodo(tipo_periodo))
        ELSE IF Empty(datos) THEN Resultado("aviso", 244)
        ELSE IF "Reclutador" \notin datos.cols THEN Resultado("KeyError", 248)
        \* no column to rank by: an info box, no detail table either
        ELSE IF ranking.err # "ok" THEN Resultado("completa", 440)
        ELSE IF \E r \in nombres : meta_rec[r].err # "ok"
        THEN Resultado("KeyError", 332)
        ELSE IF "Firmaron" \notin ranking.cols
        THEN [Resultado("KeyError", 336) EXCEPT
                 !.metas_usadas = {<<r, meta_rec[r].valor>> : r \in nombres}]
        ELSE [Resultado("completa", 440) EXCEPT
                 !.metas_usadas = {<<r, meta_rec[r].valor>> : r \in nombres}]

(***************************************************************************)
(* DASHBOARD DIARIO.  numpy tells whether Dias_Generales arrived as a      *)
(* numeric column, whose values are numpy scalars (a division by 0 gives   *)
(* inf or nan, and int() of it raises at line 517), or as an object        *)
(* column, whose values are Python numbers (the division raises at 493).   *)
(***************************************************************************)
render_dashboard_diario(reclutador, metricas_diarias, metas, config_dias, fecha_seleccionada, numpy) ==
    LET fechas_disponibles == get_periodos_disponibles(metricas_diarias, "diario")
        del_rec == DelReclutador(metricas_diarias, reclutador)
        datos_dia ==
            Seleccionar(del_rec, [i \in 1..Len(del_rec.filas) |->
                DtDate(del_rec.filas[i].Fecha) = fecha_seleccionada])
        meta_semanal == meta_con_guardas(metas, reclutador)
        dias_laborables == dias_con_guardas(config_dias, reclutador)
        inicio_semana == fecha_seleccionada - Weekday(fecha_seleccionada)
        datos_semana ==
            Seleccionar(del_rec, [i \in 1..Len(del_rec.filas) |->
                /\ DtDate(del_rec.filas[i].Fecha) >= inicio_semana
                /\ DtDate(del_rec.filas[i].Fecha) <= fecha_seleccionada])
        acumulado_semana ==
            IF ~Empty(datos_semana) /\ "Firmaron" \in datos_semana.cols
            THEN SumaColumna(datos_semana.filas, "Firmaron", 1) ELSE 0
        dias_transcurridos == (fecha_seleccionada - inicio_semana) + 1
        hasta(fin, linea) ==
            [Resultado(fin, linea) EXCEPT
                !.metas_usadas = {<<reclutador, meta_semanal>>},
                !.dias_laborables = dias_laborables]
        con_proyeccion(fin, linea) ==
            [hasta(fin, linea) EXCEPT
                !.dias_transcurridos = dias_transcurridos,
                !.acumulado_semana = acumulado_semana,
                !.proyeccion = proyeccion_semanal(acumulado_semana,
                                   dias_transcurridos, dias_laborables)]
    IN  IF fechas_disponibles.err # "ok"
        THEN Resultado(fechas_disponibles.err, 454)
        ELSE IF fechas_disponibles.lista = <<>> THEN Resultado("aviso", 457)
        ELSE IF "Reclutador" \notin metricas_diarias.cols
        THEN Resultado("KeyError", 475)
        ELSE IF dias_laborables = 0 /\ ~numpy
        THEN hasta("ZeroDivisionError", 493)
        ELSE IF dias_laborables = 0
        THEN con_proyeccion(IF meta_semanal = 0 THEN "ValueError"
                            ELSE "OverflowError", 517)
        ELSE IF /\ ~Empty(datos_dia)
                /\ ~Empty(metas)
                /\ Contadores \cap datos_dia.cols \cap metas.cols # {}
                /\ "Reclutador" \notin metas.cols
        THEN con_proyeccion("KeyError", 570)
        ELSE con_proyeccion("completa", 588)

(***************************************************************************)
(* DASHBOARD SEMANAL and DASHBOARD MENSUAL                                 *)
(***************************************************************************)
render_dashboard_semanal(reclutador, metricas_diarias, metricas_semanales, metas, semana_seleccionada) ==
    LET semanas_disponibles ==
            get_periodos_disponibles(metricas_semanales, "semanal")
        datos_semana ==
            filtrar_por_periodo(metricas_semanales, semana_seleccionada, "semanal")
    IN  IF semanas_disponibles.err # "ok"
        THEN Resultado(semanas_disponibles.err, 602)
        ELSE IF semanas_disponibles.lista = <<>> THEN Resultado("aviso", 605)
        ELSE IF datos_semana.err # "ok" THEN Resultado(datos_semana.err, 619)
        ELSE IF ~Empty(datos_semana) /\ "Reclutador" \notin datos_semana.cols
        THEN Resultado("KeyError", 620)
        ELSE IF Empty(datos_semana)
                  \/ Empty(DelReclutador(datos_semana, reclutador))
        THEN Resultado("aviso", 623)
        ELSE [Resultado("completa", 741) EXCEPT
                 !.metas_usadas =
                     {<<reclutador, meta_con_guardas(metas, reclutador)>>}]

\* lines 867-873: the detail table always asks for the column 'Semana'
tabla_cols(d) ==
    {"Semana"} \cup
        ({"Publicaciones", "Contactos", "Entrevistas", "Firmaron"} \cap d.cols)

render_dashboard_mensual(reclutador, metricas_semanales, metas, mes_seleccionado) ==
    LET meses_disponibles ==
            get_periodos_disponibles(metricas_semanales, "mensual")
        datos_mes ==
            filtrar_por_periodo(metricas_semanales, mes_seleccionado, "mensual")
        con_meta(fin, linea) ==
            [Resultado(fin, linea) EXCEPT
                !.metas_usadas =
                    {<<reclutador, meta_con_guardas(metas, reclutador)>>}]
    IN  IF meses_disponibles.err # "ok"
        THEN Resultado(meses_disponibles.err, 755)
        ELSE IF meses_disponibles.lista = <<>> THEN Resultado("aviso", 758)
        ELSE IF datos_mes.err # "ok" THEN Resultado(datos_mes.err, 772)
        ELSE IF ~Empty(datos_mes) /\ "Reclutador" \notin datos_mes.cols
        THEN Resultado("KeyError", 773)
        ELSE IF Empty(datos_mes) \/ Empty(DelReclutador(datos_mes, reclutador))
        THEN Resultado("aviso", 776)
        ELSE IF Cardinality(tabla_cols(datos_mes)) > 1
                  /\ ~(tabla_cols(datos_mes) \subseteq datos_mes.cols)
        THEN con_meta("KeyError", 873)
        ELSE con_meta("completa", 878)

(***************************************************************************)
(* APLICACION PRINCIPAL, from the check of the loaded data on (lines       *)
(* 897-994), the refresh button not pressed.  entrada is the view entered, *)
(* sidebar whether the sidebar was drawn.                                  *)
(***************************************************************************)
\* lines 931-937: the recruiters the sidebar offers
reclutadores(c) ==
    (IF ~Empty(c["metricas_diarias"])
          /\ "Reclutador" \in c["metricas_diarias"].cols
     THEN {c["metricas_diarias"].filas[i].Reclutador :
              i \in 1..Len(c["metricas_diarias"].filas)}
     ELSE {})
    \cup
    (IF ~Empty(c["metricas_semanales"])
          /\ "Reclutador" \in c["metricas_semanales"].cols
     THEN {c["metricas_semanales"].filas[i].Reclutador :
              i \in 1..Len(c["metricas_semanales"].filas)}
     ELSE {})

\* the view function main calls for the view it enters
render_dashboard(c, entrada, reclutador, tipo_periodo, seleccion, hoy, numpy) ==
    IF entrada = "departamento"
    THEN render_dashboard_departamento(c["metricas_diarias"], c["metas"],
                                       tipo_periodo, hoy)
    ELSE IF entrada = "diario"
    THEN render_dashboard_diario(reclutador, c["metricas_diarias"], c["metas"],
                                 c["config_dias"], seleccion, numpy)
    ELSE IF entrada = "semanal"
    THEN render_dashboard_semanal(reclutador, c["metricas_diarias"],
                                  c["metricas_semanales"], c["metas"], seleccion)
    ELSE render_dashboard_mensual(reclutador, c["metricas_semanales"],
                                  c["metas"], seleccion)

Pantalla(sidebar, entrada, res) ==
    [sidebar |-> sidebar, entrada |-> entrada, res |-> res]

main(c, dt, v, reclutador, tipo_periodo, seleccion, hoy, numpy) ==
    IF Empty(c["metricas_diarias"]) /\ Empty(c["metricas_semanales"])
    THEN Pantalla(FALSE, "none", Resultado("error_carga", 914))
    ELSE IF dt = "Individual" /\ ~hay_reclutadores(c)
    THEN Pantalla(TRUE, "none", Resultado("error_reclutadores", 941))
    ELSE IF despachar(c, dt, v) = "error_vista"
    THEN Pantalla(TRUE, "none", Resultado("error_vista", 994))
    ELSE Pantalla(TRUE, despachar(c, dt, v),
                  render_dashboard(c, despachar(c, dt, v), reclutador,
                                   tipo_periodo, seleccion, hoy, numpy))

(***************************************************************************)
(* Inputs of the specifications, and the idle state of each part of the    *)
(* model: a specification exercises one part and leaves the others idle.   *)
(***************************************************************************)
Reclutadores == {"Ana", "Luis"}
FechasMuestra ==
    {Timestamp(0, 0), Timestamp(16, 0), Timestamp(16, 18), Timestamp(37, 0),
     Timestamp(380, 0)}
FechasInicioMuestra == {Timestamp(14, 0), Timestamp(35, 0)}
SemanasMuestra == {3, 6}
ColumnasPeriodo == {"Fecha", "Fecha_Inicio", "Semana"}

PeriodosDe(t) ==
    IF t = "diario" THEN {0, 16, 17, 37, 380}
    ELSE IF t = "semanal" THEN {1, 3, 6, 7}
    ELSE {202412, 202501, 202502, 202503, 202601}

Tipos == {"diario", "semanal", "mensual"}

\* the rows a table with the period columns pcols can hold: a field of an
\* absent column has one fixed value, which no operation reads
FilasPosibles(pcols) ==
    {[Reclutador |-> "Ana", Fecha |-> f, Fecha_Inicio |-> fi, Semana |-> s,
      Dias_Generales |-> 0, cnt |-> SinContadores] :
        f \in (IF "Fecha" \in pcols THEN FechasMuestra ELSE {Timestamp(0, 0)}),
        fi \in (IF "Fecha_Inicio" \in pcols THEN FechasInicioMuestra
                ELSE {Timestamp(0, 0)}),
        s \in (IF "Semana" \in pcols THEN SemanasMuestra ELSE {0})}

\* rows numbered 0, 1, ... as pd.DataFrame numbers them
ConIndice(fs) ==
    [i \in 1..Len(fs) |->
        [idx |-> i - 1, Reclutador |-> fs[i].Reclutador, Fecha |-> fs[i].Fecha,
         Fecha_Inicio |-> fs[i].Fecha_Inicio, Semana |-> fs[i].Semana,
         Dias_Generales |-> fs[i].Dias_Generales, cnt |-> fs[i].cnt]]

TablasPosibles ==
    UNION {UNION {{DataFrame({"Reclutador"} \cup pcols, ConIndice(fs)) :
                      fs \in [1..n -> FilasPosibles(pcols)]} : n \in 0..MaxFilas} :
           pcols \in SUBSET ColumnasPeriodo}

NoFrame == Excepcion("none")

\* what the remote store can answer a fetch with
RespuestasPosibles ==
    {Registros(raw) : raw \in TablasPosibles} \cup {Falla(c) : c \in Fallos}

PerfilesMuestra ==
    {[c \in Contadores |-> 0],
     [c \in Contadores |-> IF c = "Firmaron" THEN 2 ELSE 3],
     [c \in Contadores |-> IF c = "Aceptados" THEN 1 ELSE 4],
     [c \in Contadores |-> 9]}

HistorialesPosibles ==
    UNION {[1..n -> PerfilesMuestra] : n \in 0..MaxSemanas}

SinMetas == [r \in Reclutadores |-> <<>>]

ValoresMuestra ==
    {[c \in Contadores |-> 1],
     [c \in Contadores |-> IF c = "Firmaron" THEN 2 ELSE 5]}

\* the daily rows a table with the counter columns cc can hold
FilasDiarias(cc) ==
    {[Reclutador |-> r, Fecha |-> Timestamp(16, 0),
      Fecha_Inicio |-> Timestamp(0, 0), Semana |-> 0, Dias_Generales |-> 0,
      cnt |-> [c \in Contadores |-> IF c \in cc THEN v[c] ELSE 0]] :
        r \in Reclutadores, v \in ValoresMuestra}

DatosPosibles ==
    UNION {UNION {{DataFrame({"Reclutador", "Fecha"} \cup cc, ConIndice(fs)) :
                      fs \in [1..n -> FilasDiarias(cc)]} : n \in 1..MaxFilas} :
           cc \in SUBSET Contadores}

AggIdle ==
    /\ datos_periodo = NoFrame
    /\ agregado = NoFrame

MaxReloj == 450     \* the clock runs over 0 .. MaxReloj

\* how much time passes at once
Lapsos == {150, 300}

NoServido ==
    [variable |-> "none", origen |-> "none", habia |-> FALSE, edad |-> 0,
     tabla |-> "none", fallo |-> FALSE]

SinCargar == [v \in {Cargas[k] : k \in 1..Len(Cargas)} |-> NoFrame]
SinFetches == [t \in Tablas |-> 0]

\* no script run yet: an empty cache, nothing on screen
CicloIdle ==
    /\ cache = {}
    /\ now = 0
    /\ pc = "esperando"
    /\ paso = 1
    /\ en_vuelo = {}
    /\ cargado = SinCargar
    /\ clic = FALSE
    /\ boton_visible = FALSE
    /\ dashboard_tipo = "Departamento"
    /\ vista = "Diario"
    /\ salida = "none"
    /\ fetches = SinFetches
    /\ servido = NoServido
    /\ tras_refresh = FALSE

\* the record sets the views are exercised on: one row per recruiter and
\* day (or week), every counter of a row 3
FilaVista(r, dia) ==
    [Reclutador |-> r, Fecha |-> Timestamp(dia, 0),
     Fecha_Inicio |-> Timestamp(14, 0), Semana |-> 3, Dias_Generales |-> 0,
     cnt |-> [c \in Contadores |-> 3]]

\* 2025-01-15 is a Wednesday, 2025-01-18 a Saturday
FilasDiariasVista ==
    {<<FilaVista("Ana", 16)>>, <<FilaVista("Ana", 19)>>,
     <<FilaVista("Ana", 16), FilaVista("Ana", 19)>>,
     <<FilaVista("Ana", 16), FilaVista("Luis", 16)>>}

DiariasVista ==
    {DataFrame({"Reclutador", "Fecha"} \cup cc, ConIndice(fs)) :
        cc \in SUBSET Contadores, fs \in FilasDiariasVista}
    \cup {DataFrame({"Fecha", "Firmaron"}, ConIndice(<<FilaVista("Ana", 16)>>)),
          DataFrame({"Reclutador", "Firmaron"},
                    ConIndice(<<FilaVista("Ana", 16)>>)),
          DataFrame({}, <<>>)}

DiariaCompleta ==
    DataFrame({"Reclutador", "Fecha"} \cup Contadores,
              ConIndice(<<FilaVista("Ana", 16), FilaVista("Ana", 19)>>))

SemanalesVista ==
    {DataFrame({"Reclutador"} \cup pcols \cup cc, ConIndice(fs)) :
        pcols \in SUBSET ColumnasPeriodo,
        cc \in {{}, {"Firmaron"}, {"Contactos"}, Contadores},
        fs \in {<<FilaVista("Ana", 16)>>,
                <<FilaVista("Ana", 16), FilaVista("Luis", 16)>>}}
    \cup {DataFrame({"Semana", "Firmaron"}, ConIndice(<<FilaVista("Ana", 16)>>)),
          DataFrame({}, <<>>)}

SemanalCompleta ==
    DataFrame({"Reclutador", "Semana", "Fecha"} \cup Contadores,
              ConIndice(<<FilaVista("Ana", 16)>>))

\* a goals row: the weekly goal of every counter is m
FilaMeta(r, m) ==
    [Reclutador |-> r, Fecha |-> Timestamp(0, 0),
     Fecha_Inicio |-> Timestamp(0, 0), Semana |-> 0, Dias_Generales |-> 0,
     cnt |-> [c \in Contadores |-> m]]

MetasVista ==
    {DataFrame({}, <<>>),
     DataFrame({"Reclutador", "Firmaron", "Contactos"},
               ConIndice(<<FilaMeta("Luis", 8)>>)),
     DataFrame({"Reclutador", "Firmaron", "Contactos"},
               ConIndice(<<FilaMeta("Ana", 10), FilaMeta("Luis", 0)>>)),
     DataFrame({"Reclutador", "Contactos"}, ConIndice(<<FilaMeta("Ana", 10)>>)),
     DataFrame({"Firmaron"}, ConIndice(<<FilaMeta("Ana", 10)>>))}

FilaConfig(r, dias) ==
    [Reclutador |-> r, Fecha |-> Timestamp(0, 0),
     Fecha_Inicio |-> Timestamp(0, 0), Semana |-> 0, Dias_Generales |-> dias,
     cnt |-> SinContadores]

ConfigVista ==
    {DataFrame({}, <<>>),
     DataFrame({"Reclutador"}, ConIndice(<<FilaConfig("Ana", 0)>>))}
    \cup {DataFrame({"Reclutador", "Dias_Generales"},
                    ConIndice(<<FilaConfig(r, dias)>>)) :
              r \in Reclutadores, dias \in {0, 3, 7}}

\* what the four fetches can have brought
RemotosVista ==
    [metricas_diarias : DiariasVista,
     metricas_semanales : {DataFrame({}, <<>>), SemanalCompleta},
     metas : MetasVista, config_dias : ConfigVista]
    \cup
    [metricas_diarias : {DataFrame({}, <<>>), DiariaCompleta},
     metricas_semanales : SemanalesVista,
     metas : MetasVista, config_dias : {DataFrame({}, <<>>)}]

HoyMuestra == {19, 50}

SinRender ==
    [dashboard |-> "none", vista |-> "none", reclutador |-> "none",
     tipo_periodo |-> "none", seleccion |-> 0, hoy |-> 0, numpy |-> TRUE,
     sidebar |-> FALSE, entrada |-> "none", res |-> Resultado("none", 0)]

VistaIdle ==
    /\ tablas = SinCargar
    /\ render = SinRender

KpiIdle ==
    /\ fn = "none"
    /\ args = <<>>
    /\ ret = PyInt(0)

FiltroIdle ==
    /\ df = NoFrame
    /\ tipo = "none"
    /\ periodo = 0
    /\ resultado = NoFrame
    /\ periodos = Lista(<<>>)
    /\ falla = "none"
    /\ st_error = FALSE

MetasIdle ==
    /\ historial = SinMetas
    /\ metas_derivadas = SinMetas

(***************************************************************************)
(* The KPI specification: any call of any of the four functions.           *)
(***************************************************************************)
KpiInit ==
    /\ KpiIdle
    /\ FiltroIdle
    /\ MetasIdle
    /\ AggIdle
    /\ CicloIdle
    /\ VistaIdle

LlamarEfectividad ==
    \E n \in Numeradores, d \in Denominadores :
        /\ fn = "none"
        /\ fn' = "calcular_efectividad"
        /\ args' = <<n, d>>
        /\ ret' = calcular_efectividad(n, d)
        /\ UNCHANGED <<filtroVars, metasVars, aggVars, cicloVars, vistaVars>>

LlamarProductividad ==
    \E n \in Numeradores, d \in Denominadores :
        /\ fn = "none"
        /\ fn' = "calcular_productividad"
        /\ args' = <<n, d>>
        /\ ret' = calcular_productividad(n, d)
        /\ UNCHANGED <<filtroVars, metasVars, aggVars, cicloVars, vistaVars>>

LlamarCalidad ==
    \E n \in Numeradores, d \in Denominadores :
        /\ fn = "none"
        /\ fn' = "calcular_calidad"
        /\ args' = <<n, d>>
        /\ ret' = calcular_calidad(n, d)
        /\ UNCHANGED <<filtroVars, metasVars, aggVars, cicloVars, vistaVars>>

LlamarProyeccion ==
    \E a \in Numeradores, e \in Unidades, t \in Unidades :
        /\ fn = "none"
        /\ fn' = "proyeccion_semanal"
        /\ args' = <<a, e, t>>
        /\ ret' = proyeccion_semanal(a, e, t)
        /\ UNCHANGED <<filtroVars, metasVars, aggVars, cicloVars, vistaVars>>

\* The caller takes the value; the next call starts from scratch.
Retornar ==
    /\ fn # "none"
    /\ fn' = "none"
    /\ args' = <<>>
    /\ ret' = PyInt(0)
    /\ UNCHANGED <<filtroVars, metasVars, aggVars, cicloVars, vistaVars>>

KpiNext ==
    \/ Retornar
    \/ LlamarEfectividad
    \/ LlamarProductividad
    \/ LlamarCalidad
    \/ LlamarProyeccion

SpecKpi == KpiInit /\ [][KpiNext]_vars

RatioFns == {"calcular_efectividad", "calcular_productividad", "calcular_calidad"}

Abs(x) == IF x < 0 THEN 0 - x ELSE x

\* t is num/den (den > 0) rounded to the nearest integer, a tie going to
\* the even neighbour: the meaning of round(), stated without computing it.
EsRedondeo(t, num, den) ==
    /\ 2 * Abs(t * den - num) <= den
    /\ (2 * Abs(t * den - num) = den => t % 2 = 0)

\* C1: with a denominator equal to 0, each of calcular_efectividad,
\* calcular_productividad and calcular_calidad returns exactly the integer
\* 0, whatever the numerator, and raises nothing.
C1_DenominadorCero ==
    (fn \in RatioFns /\ args[2] = 0) => ret = PyInt(0)

C1_Witness ==
    /\ fn = "calcular_efectividad"
    /\ args = <<7, 0>>
    /\ ret = PyInt(0)

\* C2: with a non-negative numerator and a denominator > 0 the three ratio
\* functions return the same float, numerator/denominator*100 rounded to
\* one decimal; (10, 20) gives 50.0.
C2_PorcentajeRedondeado ==
    (fn \in RatioFns /\ args[1] >= 0 /\ args[2] > 0) =>
        /\ ret.tipo = "float"
        /\ EsRedondeo(ret.decimos, args[1] * 1000, args[2])
        /\ (args = <<10, 20>> => ret.decimos = 500)

C2_Witness ==
    /\ fn = "calcular_productividad"
    /\ args = <<10, 20>>
    /\ ret = PyFloat(500)

\* C3: proyeccion_semanal returns accumulated/elapsed*total rounded to a
\* whole number when elapsed > 0, and 0 when elapsed = 0; (10, 2, 6)
\* gives 30.
C3_Proyeccion ==
    fn = "proyeccion_semanal" =>
        /\ args[2] = 0 => ret = PyInt(0)
        /\ args[2] > 0 =>
              /\ ret.tipo = "float"
              /\ ret.decimos % 10 = 0
              /\ EsRedondeo(ret.decimos \div 10, args[1] * args[3], args[2])
        /\ args = <<10, 2, 6>> => ret.decimos = 300

C3_Witness ==
    /\ fn = "proyeccion_semanal"
    /\ args = <<10, 2, 6>>
    /\ ret = PyFloat(300)


(***************************************************************************)
(* The filter specification: a table as the remote store can hold it is    *)
(* loaded by its loader, then filtered by any period of any granularity.   *)
(***************************************************************************)
FiltroInit ==
    /\ KpiIdle
    /\ MetasIdle
    /\ AggIdle
    /\ CicloIdle
    /\ VistaIdle
    /\ \E respuesta \in RespuestasPosibles :
          LET r == get_airtable_data(respuesta)
          IN  /\ df \in {get_metricas_diarias(r.valor),
                         get_metricas_semanales(r.valor)}
              /\ falla = respuesta.excepcion
              /\ st_error = r.st_error
    /\ tipo = "none"
    /\ periodo = 0
    /\ resultado = NoFrame
    /\ periodos = Lista(<<>>)

Filtrar ==
    \E t \in Tipos :
        \E p \in PeriodosDe(t) :
            /\ tipo = "none"
            /\ tipo' = t
            /\ periodo' = p
            /\ periodos' = get_periodos_disponibles(df, t)
            /\ resultado' = filtrar_por_periodo(df, p, t)
            /\ UNCHANGED <<df, falla, st_error, kpiVars, metasVars, aggVars,
                           cicloVars, vistaVars>>

RetornarFiltro ==
    /\ tipo # "none"
    /\ tipo' = "none"
    /\ periodo' = 0
    /\ resultado' = NoFrame
    /\ periodos' = Lista(<<>>)
    /\ UNCHANGED <<df, falla, st_error, kpiVars, metasVars, aggVars,
                   cicloVars, vistaVars>>

FiltroNext == Filtrar \/ RetornarFiltro

SpecFiltro == FiltroInit /\ [][FiltroNext]_vars

\* how many rows of filas are the row f (rows carry their index label)
Veces(filas, f) == Cardinality({i \in 1..Len(filas) : filas[i] = f})

FilasDe(d) == {d.filas[i] : i \in 1..Len(d.filas)}

\* C4: filtrar_por_periodo with tipo 'diario' on a daily record set (Fecha
\* a datetime column, or no rows at all) returns a frame holding only input
\* rows whose Fecha falls on the date asked for, and an empty one when no
\* row has that date.
C4_FiltroDiario ==
    (tipo = "diario" /\ ("Fecha" \in df.dt \/ Len(df.filas) = 0)) =>
        /\ resultado.err = "ok"
        /\ \A f \in FilasDe(resultado) :
              f \in FilasDe(df) /\ f.Fecha.dia = periodo
        /\ (\A f \in FilasDe(df) : f.Fecha.dia # periodo) =>
              resultado.filas = <<>>

C4_Witness ==
    /\ tipo = "diario"
    /\ periodo = 16
    /\ "Fecha" \in df.dt
    /\ Len(df.filas) = 2
    /\ Len(resultado.filas) = 1
    /\ resultado.filas[1].Fecha = Timestamp(16, 18)

\* the match predicate of a period: the date for 'diario'; the week number,
\* explicit or the ISO week of Fecha, for 'semanal'; the year-month of
\* Fecha_Inicio, or else of Fecha, for 'mensual'
Coincide(f) ==
    IF tipo = "diario" THEN f.Fecha.dia = periodo
    ELSE IF tipo = "semanal"
    THEN IF "Semana" \in df.cols THEN f.Semana = periodo
         ELSE IsoWeek(f.Fecha) = periodo
    ELSE IF "Fecha_Inicio" \in df.cols
         THEN PeriodStr(ToPeriodM(f.Fecha_Inicio)) = periodo
         ELSE PeriodStr(ToPeriodM(f.Fecha)) = periodo

\* C5: for each granularity, the frame filtrar_por_periodo returns holds
\* every input row that matches the period exactly once, holds no other
\* row, and keeps the columns: nothing is duplicated or dropped but by the
\* match predicate.
C5_SinDuplicarNiPerder ==
    (tipo \in Tipos /\ resultado.err = "ok") =>
        /\ resultado.cols = df.cols
        /\ resultado.dt = df.dt
        /\ FilasDe(resultado) \subseteq FilasDe(df)
        /\ \A f \in FilasDe(df) :
              Veces(resultado.filas, f) = IF Coincide(f) THEN 1 ELSE 0

C5_Witness ==
    /\ tipo = "semanal"
    /\ periodo = 3
    /\ "Semana" \notin df.cols
    /\ resultado.err = "ok"
    /\ Len(df.filas) = 2
    /\ Len(resultado.filas) = 2
    /\ resultado.filas[1].Fecha.dia = 16
    /\ resultado.filas[2].Fecha.dia = 380

\* the values the list of periods holds
PeriodosOfrecidos == {periodos.lista[i] : i \in 1..Len(periodos.lista)}

\* C11: a failure of the remote fetch does not leave get_airtable_data: the
\* call returns an empty record set and shows an inline error; and on an
\* empty record set the loaders, get_periodos_disponibles and
\* filtrar_por_periodo return an empty result and raise nothing.
C11_FalloDegradaAVacio ==
    /\ falla # "none" => (df = DataFrame({}, <<>>) /\ st_error)
    /\ Empty(df) =>
          /\ df.err = "ok"
          /\ tipo \in Tipos =>
                /\ periodos = Lista(<<>>)
                /\ resultado.err = "ok"
                /\ Empty(resultado)

C11_Witness ==
    /\ falla = "auth"
    /\ st_error
    /\ tipo = "semanal"
    /\ periodos = Lista(<<>>)
    /\ resultado = DataFrame({}, <<>>)

\* C15: with Semana present the weekly filter matches on Semana, whatever
\* the date columns hold; without Semana a weekly filter that returns has
\* matched on the ISO week of a date column; and the weeks offered are the
\* values of Semana if present, else the ISO weeks of Fecha_Inicio if
\* present, else those of Fecha.
C15_PrecedenciaSemana ==
    (tipo = "semanal" /\ ~Empty(df)) =>
        /\ "Semana" \in df.cols =>
              /\ resultado.err = "ok"
              /\ FilasDe(resultado) = {f \in FilasDe(df) : f.Semana = periodo}
        /\ ("Semana" \notin df.cols /\ resultado.err = "ok") =>
              FilasDe(resultado) =
                  {f \in FilasDe(df) : IsoWeek(f.Fecha) = periodo}
        /\ periodos.err = "ok" =>
              PeriodosOfrecidos =
                  IF "Semana" \in df.cols
                  THEN {f.Semana : f \in FilasDe(df)}
                  ELSE IF "Fecha_Inicio" \in df.cols
                  THEN {IsoWeek(f.Fecha_Inicio) : f \in FilasDe(df)}
                  ELSE IF "Fecha" \in df.cols
                  THEN {IsoWeek(f.Fecha) : f \in FilasDe(df)}
                  ELSE {}

C15_Witness ==
    /\ tipo = "semanal"
    /\ periodo = 3
    /\ {"Semana", "Fecha", "Fecha_Inicio"} \subseteq df.cols
    /\ Len(df.filas) = 2
    /\ df.filas[1].Semana = 3
    /\ df.filas[1].Fecha.dia = 37
    /\ df.filas[2].Semana = 6
    /\ df.filas[2].Fecha.dia = 16
    /\ periodos = Lista(<<6, 3>>)
    /\ Len(resultado.filas) = 1
    /\ resultado.filas[1] = df.filas[1]

\* the input rows a period of the list was derived from
DerivadoDe(f) ==
    IF tipo = "diario" THEN DtDate(f.Fecha) = periodo
    ELSE IF tipo = "semanal"
    THEN IF "Semana" \in df.cols THEN f.Semana = periodo
         ELSE IF "Fecha_Inicio" \in df.cols
         THEN IsoWeek(f.Fecha_Inicio) = periodo
         ELSE IsoWeek(f.Fecha) = periodo
    ELSE IF "Fecha_Inicio" \in df.cols
         THEN PeriodStr(ToPeriodM(f.Fecha_Inicio)) = periodo
         ELSE PeriodStr(ToPeriodM(f.Fecha)) = periodo

\* C16: every period get_periodos_disponibles returns for a non-empty
\* record set can be passed to filtrar_por_periodo with the same tipo: the
\* call raises nothing and returns exactly the rows the period was derived
\* from, at least one.
C16_PeriodoOfrecidoFiltra ==
    (tipo \in Tipos /\ ~Empty(df) /\ periodos.err = "ok"
       /\ periodo \in PeriodosOfrecidos) =>
        /\ resultado.err = "ok"
        /\ resultado.filas # <<>>
        /\ FilasDe(resultado) = {f \in FilasDe(df) : DerivadoDe(f)}

(***************************************************************************)
(* The goal engine specification: any history, then one computation.       *)
(***************************************************************************)
MetasInit ==
    /\ KpiIdle
    /\ FiltroIdle
    /\ AggIdle
    /\ CicloIdle
    /\ VistaIdle
    /\ historial \in [Reclutadores -> HistorialesPosibles]
    /\ metas_derivadas = SinMetas

CalcularMetas ==
    /\ metas_derivadas = SinMetas
    /\ metas_derivadas' = calcular_metas(historial)
    /\ UNCHANGED <<historial, kpiVars, filtroVars, aggVars, cicloVars, vistaVars>>

DescartarMetas ==
    /\ metas_derivadas # SinMetas
    /\ metas_derivadas' = SinMetas
    /\ UNCHANGED <<historial, kpiVars, filtroVars, aggVars, cicloVars, vistaVars>>

MetasNext == CalcularMetas \/ DescartarMetas

SpecMetas == MetasInit /\ [][MetasNext]_vars

\* C6: the goal of a recruiter's 3rd weekly period is, for every counter but
\* Aceptados and Firmaron, the arithmetic mean of the recruiter's values in
\* periods 1 and 2 (twice the goal is their sum, whatever period 3 holds),
\* and it is 1 for Aceptados and Firmaron.
C6_MetaTercerPeriodo ==
    (metas_derivadas # SinMetas) =>
        \A r \in Reclutadores :
            Len(historial[r]) >= 3 =>
                /\ Len(metas_derivadas[r]) >= 3
                /\ \A c \in Contadores \ Fijados :
                      2 * metas_derivadas[r][3][c].decimos =
                          10 * (historial[r][1][c] + historial[r][2][c])
                /\ \A c \in Fijados :
                      metas_derivadas[r][3][c].decimos = 10

C6_Witness ==
    /\ Len(historial["Ana"]) = 3
    /\ historial["Ana"][1]["Contactos"] = 3
    /\ historial["Ana"][2]["Contactos"] = 4
    /\ historial["Ana"][3]["Contactos"] = 9
    /\ Len(metas_derivadas["Ana"]) = 3
    /\ metas_derivadas["Ana"][3]["Contactos"] = PyFloat(35)
    /\ metas_derivadas["Ana"][3]["Firmaron"] = PyInt(1)

(***************************************************************************)
(* The aggregation specification: any non-empty daily record set (the view *)
(* returns before this point on an empty one), then the ranking's groupby. *)
(***************************************************************************)
AggInit ==
    /\ KpiIdle
    /\ FiltroIdle
    /\ MetasIdle
    /\ CicloIdle
    /\ VistaIdle
    /\ datos_periodo \in {get_metricas_diarias(raw) : raw \in DatosPosibles}
    /\ agregado = NoFrame

AgruparPorReclutador ==
    /\ agregado = NoFrame
    /\ agregado' = agrupar_por_reclutador(datos_periodo)
    /\ UNCHANGED <<datos_periodo, kpiVars, filtroVars, metasVars, cicloVars, vistaVars>>

DescartarRanking ==
    /\ agregado # NoFrame
    /\ agregado' = NoFrame
    /\ UNCHANGED <<datos_periodo, kpiVars, filtroVars, metasVars, cicloVars, vistaVars>>

AggNext == AgruparPorReclutador \/ DescartarRanking

SpecAgg == AggInit /\ [][AggNext]_vars

\* the total of counter c over the input rows of recruiter r
TotalDe(r, c) ==
    LET pos == {i \in 1..Len(datos_periodo.filas) :
                   datos_periodo.filas[i].Reclutador = r}
        RECURSIVE Sumar(_)
        Sumar(S) == IF S = {} THEN 0
                    ELSE LET i == CHOOSE j \in S : TRUE
                         IN  datos_periodo.filas[i].cnt[c] + Sumar(S \ {i})
    IN  Sumar(pos)

CicloInit ==
    /\ KpiIdle
    /\ FiltroIdle
    /\ MetasIdle
    /\ AggIdle
    /\ CicloIdle
    /\ VistaIdle

otrosVars == <<kpiVars, filtroVars, metasVars, aggVars, vistaVars>>

\* the variable the load under way assigns, and its table
Variable == Cargas[paso]
TablaActual == tabla_de(Variable)

\* the load delivered v: on to the next load, or to the check of line 898
Entregar(v) ==
    /\ cargado' = [cargado EXCEPT ![Variable] = cargador(Variable, v)]
    /\ IF paso < Len(Cargas)
       THEN paso' = paso + 1 /\ pc' = "cargar"
       ELSE paso' = 1 /\ pc' = "verificar"

\* the run is over: st.stop(), or the end of main
Terminar(mostrado, boton) ==
    /\ pc' = "esperando"
    /\ salida' = mostrado
    /\ boton_visible' = boton
    /\ cargado' = SinCargar
    /\ fetches' = SinFetches
    /\ servido' = NoServido
    /\ tras_refresh' = FALSE

\* a script run starts: a widget was used, or the page was opened
IniciarCiclo ==
    /\ pc = "esperando"
    /\ \E c \in {FALSE} \cup {b \in {TRUE} : boton_visible} : clic' = c
    /\ pc' = "cargar"
    /\ paso' = 1
    /\ UNCHANGED <<cache, now, en_vuelo, cargado, boton_visible,
                   dashboard_tipo, vista, salida, fetches, servido,
                   tras_refresh, otrosVars>>

\* get_airtable_data, cache hit: the stored value, no fetch
CargarDeCache ==
    /\ pc = "cargar"
    /\ \E e \in Entradas(cache, TablaActual, now) :
          /\ Entregar(e.valor)
          /\ servido' = [variable |-> Variable, origen |-> "cache",
                         habia |-> TRUE, edad |-> now - e.at,
                         tabla |-> e.tabla, fallo |-> e.fallo]
    /\ UNCHANGED <<cache, now, en_vuelo, clic, boton_visible, dashboard_tipo,
                   vista, salida, fetches, tras_refresh, otrosVars>>

\* get_airtable_data, cache miss: the function body runs, table.all() starts
IniciarFetch ==
    /\ pc = "cargar"
    /\ Entradas(cache, TablaActual, now) = {}
    /\ pc' = "fetch"
    /\ en_vuelo' = en_vuelo \cup {TablaActual}
    /\ fetches' = [fetches EXCEPT ![TablaActual] = @ + 1]
    /\ servido' = [variable |-> Variable, origen |-> "fetch",
                   habia |-> \E e \in cache : e.tabla = TablaActual,
                   edad |-> IF \E e \in cache : e.tabla = TablaActual
                            THEN now - (CHOOSE e \in cache :
                                           e.tabla = TablaActual).at
                            ELSE 0,
                   tabla |-> TablaActual, fallo |-> FALSE]
    /\ UNCHANGED <<cache, now, paso, cargado, clic, boton_visible,
                   dashboard_tipo, vista, salida, tras_refresh, otrosVars>>

\* table.all() returned, or raised and the except clause took over; the
\* value returned is stored in the cache either way
TerminarFetch ==
    /\ pc = "fetch"
    /\ \E respuesta \in {Registros(fetch_ok(TablaActual)), Falla("network")} :
          LET r == get_airtable_data(respuesta)
          IN  /\ cache' = guardar(cache, TablaActual, now, r.valor, r.st_error)
              /\ Entregar(r.valor)
              /\ servido' = [servido EXCEPT !.fallo = r.st_error]
    /\ en_vuelo' = en_vuelo \ {TablaActual}
    /\ UNCHANGED <<now, clic, boton_visible, dashboard_tipo, vista, salida,
                   fetches, tras_refresh, otrosVars>>

\* lines 898-914: no data at all, the load error and st.stop()
ErrorDeCarga ==
    /\ pc = "verificar"
    /\ Empty(cargado["metricas_diarias"])
    /\ Empty(cargado["metricas_semanales"])
    /\ Terminar("error_carga", FALSE)
    /\ UNCHANGED <<cache, now, paso, en_vuelo, clic, dashboard_tipo, vista,
                   otrosVars>>

\* lines 917-955: the sidebar's selections; st.stop() without recruiters
Sidebar ==
    /\ pc = "verificar"
    /\ ~(Empty(cargado["metricas_diarias"])
           /\ Empty(cargado["metricas_semanales"]))
    /\ \E dt \in {"Departamento", "Individual"},
          v \in {"Diario", "Semanal", "Mensual"} :
          /\ dashboard_tipo' = dt
          /\ vista' = v
          /\ IF dt = "Individual" /\ ~hay_reclutadores(cargado)
             THEN Terminar("error_reclutadores", FALSE)
             ELSE /\ pc' = "boton"
                  /\ UNCHANGED <<salida, boton_visible, cargado, fetches,
                                 servido, tras_refresh>>
    /\ UNCHANGED <<cache, now, paso, en_vuelo, clic, otrosVars>>

\* lines 959-961, button pressed: st.cache_data.clear() and st.rerun(),
\* which ends this run and starts the next one at once
Actualizar ==
    /\ pc = "boton"
    /\ clic
    /\ cache' = clear(cache, now)
    /\ pc' = "cargar"
    /\ paso' = 1
    /\ clic' = FALSE
    /\ cargado' = SinCargar
    /\ fetches' = SinFetches
    /\ servido' = NoServido
    /\ tras_refresh' = TRUE
    /\ UNCHANGED <<now, en_vuelo, boton_visible, dashboard_tipo, vista, salida,
                   otrosVars>>

\* lines 959-994, button not pressed: the rest of the sidebar and the view
Renderizar ==
    /\ pc = "boton"
    /\ ~clic
    /\ Terminar(despachar(cargado, dashboard_tipo, vista), TRUE)
    /\ UNCHANGED <<cache, now, paso, en_vuelo, clic, dashboard_tipo, vista,
                   otrosVars>>

\* time passes
Tick ==
    /\ \E d \in Lapsos :
          /\ now + d <= MaxReloj
          /\ now' = now + d
    /\ UNCHANGED <<cache, pc, paso, en_vuelo, cargado, clic, boton_visible,
                   dashboard_tipo, vista, salida, fetches, servido,
                   tras_refresh, otrosVars>>

CicloNext ==
    \/ IniciarCiclo
    \/ CargarDeCache
    \/ IniciarFetch
    \/ TerminarFetch
    \/ ErrorDeCarga
    \/ Sidebar
    \/ Actualizar
    \/ Renderizar
    \/ Tick

SpecCiclo == CicloInit /\ [][CicloNext]_vars

\* the tables loaded so far in this run
TablasCargadas ==
    {tabla_de(Cargas[k]) : k \in {j \in 1..Len(Cargas) :
                                     cargado[Cargas[j]] # NoFrame}}

\* C8: the refresh action leaves the cache without any entry, and the run
\* it starts fetches every table it loads from the remote store, never
\* from the cache, however young the entries were before the refresh.
C8_RefrescoFuerzaFetch ==
    tras_refresh =>
        /\ (pc = "cargar" /\ paso = 1) => cache = {}
        /\ servido.origen \in {"none", "fetch"}
        /\ \A t \in TablasCargadas : fetches[t] = 1

C8_Witness ==
    /\ tras_refresh
    /\ now = 0
    /\ pc = "boton"
    /\ \A t \in Tablas : fetches[t] = 1

\* C9: a render cycle fetches each table at most once, and at most one
\* fetch is in flight at any time: a fetch starts only after the previous
\* one has completed or failed.
C9_UnFetchPorTabla ==
    /\ \A t \in Tablas : fetches[t] <= 1
    /\ Cardinality(en_vuelo) <= 1
    /\ (en_vuelo # {}) => pc = "fetch"

C9_Witness ==
    /\ ~tras_refresh
    /\ pc = "verificar"
    /\ now = 300
    /\ \A t \in Tablas : fetches[t] = 1
    /\ en_vuelo = {}

\* C10: a load served from the cache gets an entry of the table it asked
\* for, no older than the 300-second window; a load that finds no entry of
\* its table, or one older than the window, fetches.
C10_VentanaDeCache ==
    /\ servido.origen = "cache" =>
          /\ servido.tabla = tabla_de(servido.variable)
          /\ servido.edad <= Ttl
    /\ (servido.origen # "none" /\ (~servido.habia \/ servido.edad > Ttl)) =>
          servido.origen = "fetch"

C10_Witness ==
    /\ servido.origen = "cache"
    /\ servido.variable = "metas"
    /\ servido.tabla = "metas_semanales"
    /\ servido.edad = 150

\* C17: the empty record set of a failed fetch is stored in the cache like
\* any result; a load fetches only when the cache holds no entry of its
\* table within the 300-second window, failed or not; and a load served
\* from a failed entry gets the empty record set without a fetch.
C17_FalloEnCache ==
    /\ (pc # "fetch" /\ servido.origen = "fetch" /\ servido.fallo) =>
          \E e \in cache :
              /\ e.key = clave(servido.tabla)
              /\ e.fallo
              /\ e.valor = DataFrame({}, <<>>)
    /\ pc = "fetch" =>
          ~\E e \in cache : e.key = clave(TablaActual) /\ now - e.at < Ttl
    /\ (servido.origen = "cache" /\ servido.fallo) =>
          /\ servido.edad < Ttl
          /\ cargado[servido.variable] = DataFrame({}, <<>>)
          /\ fetches[servido.tabla] = 0

C17_Witness ==
    /\ servido.origen = "cache"
    /\ servido.fallo
    /\ servido.variable = "metricas_semanales"
    /\ servido.edad = 150
    /\ cargado["metricas_semanales"] = DataFrame({}, <<>>)
    /\ fetches["metricas_semanales"] = 0

(***************************************************************************)
(* The view specification: four record sets as the fetches and the loaders *)
(* leave them, then one run of main from line 897 on, with any selection   *)
(* the sidebar and the view's selector offer.                              *)
(***************************************************************************)
VistaInit ==
    /\ KpiIdle
    /\ FiltroIdle
    /\ MetasIdle
    /\ AggIdle
    /\ CicloIdle
    /\ \E remoto \in RemotosVista :
          tablas = [v \in DOMAIN remoto |-> cargador(v, remoto[v])]
    /\ render = SinRender

\* the options of the individual view's selector (st.selectbox returns one)
Opciones(c, v) ==
    LET l == IF v = "Diario"
             THEN get_periodos_disponibles(c["metricas_diarias"], "diario").lista
             ELSE IF v = "Semanal"
             THEN get_periodos_disponibles(c["metricas_semanales"],
                                           "semanal").lista
             ELSE get_periodos_disponibles(c["metricas_semanales"],
                                           "mensual").lista
    IN  IF l = <<>> THEN {0} ELSE {l[i] : i \in 1..Len(l)}

Render(dt, v, rec, tp, sel, h, np) ==
    LET m == main(tablas, dt, v, rec, tp, sel, h, np)
    IN  [dashboard |-> dt, vista |-> v, reclutador |-> rec,
         tipo_periodo |-> tp, seleccion |-> sel, hoy |-> h, numpy |-> np,
         sidebar |-> m.sidebar, entrada |-> m.entrada, res |-> m.res]

\* main with the sidebar on "Departamento"
MainDepartamento ==
    /\ render = SinRender
    /\ \E tp \in TiposPeriodo, h \in HoyMuestra :
          render' = Render("Departamento", "none", "none", tp, 0, h, TRUE)
    /\ UNCHANGED <<tablas, kpiVars, filtroVars, metasVars, aggVars, cicloVars>>

\* main with the sidebar on "Individual"
MainIndividual ==
    /\ render = SinRender
    /\ \E v \in {"Diario", "Semanal", "Mensual"} :
          \E rec \in (IF reclutadores(tablas) = {} THEN {"none"}
                      ELSE reclutadores(tablas)),
             sel \in Opciones(tablas, v),
             np \in (IF v = "Diario" THEN BOOLEAN ELSE {TRUE}) :
              render' = Render("Individual", v, rec, "none", sel, 19, np)
    /\ UNCHANGED <<tablas, kpiVars, filtroVars, metasVars, aggVars, cicloVars>>

\* the script run is over; the next one starts from the same record sets
Cerrar ==
    /\ render # SinRender
    /\ render' = SinRender
    /\ UNCHANGED <<tablas, kpiVars, filtroVars, metasVars, aggVars, cicloVars>>

VistaNext ==
    \/ MainDepartamento
    \/ MainIndividual
    \/ Cerrar

SpecVista == VistaInit /\ [][VistaNext]_vars

\* the outcomes of a script run that are a panel of the program's own
Paneles == {"aviso", "error_carga", "error_reclutadores", "error_vista"}

\* the record set of the view entered, and the recruiters whose goal the
\* view looks up
DatosDeLaVista ==
    IF render.entrada \in {"departamento", "diario"}
    THEN tablas["metricas_diarias"] ELSE tablas["metricas_semanales"]

Consultados ==
    IF render.entrada = "departamento"
    THEN {f.Reclutador : f \in FilasDe(tablas["metricas_diarias"])}
    ELSE {render.reclutador}

ColumnasClave ==
    IF render.entrada \in {"departamento", "diario"}
    THEN {"Reclutador", "Fecha"} ELSE {"Reclutador", "Semana"}

SinFila(d, r) ==
    \/ Empty(d)
    \/ "Reclutador" \in d.cols /\ \A f \in FilasDe(d) : f.Reclutador # r

\* no working-days value of the configuration table is 0
ConfigSinCero ==
    \/ "Dias_Generales" \notin tablas["config_dias"].cols
    \/ \A f \in FilasDe(tablas["config_dias"]) : f.Dias_Generales > 0

\* C12: in every view, a recruiter without a row in the goals table (the
\* table empty after a failed fetch included) gets the weekly goal 25 and
\* no error is raised; a recruiter without a row in the working-days table
\* gets 5 working days.  Stated for record sets that have every column, a
\* goals table that is empty or has its columns Reclutador and Firmaron,
\* and working-days values above 0, so that only the lookups decide.
C12_MetaYDiasPorDefecto ==
    (/\ render.entrada # "none"
     /\ ColumnasClave \cup Contadores \subseteq DatosDeLaVista.cols
     /\ Empty(tablas["metas"])
           \/ {"Reclutador", "Firmaron"} \subseteq tablas["metas"].cols
     /\ ConfigSinCero) =>
        /\ (\E r \in Consultados : SinFila(tablas["metas"], r)) =>
              /\ render.res.fin \in {"completa", "aviso"}
              /\ \A par \in render.res.metas_usadas :
                    SinFila(tablas["metas"], par[1]) => par[2] = MetaPorDefecto
        /\ (/\ render.entrada = "diario"
            /\ render.res.fin = "completa"
            /\ SinFila(tablas["config_dias"], render.reclutador)) =>
              render.res.dias_laborables = DiasPorDefecto

\* C13: whatever subset of the counter columns the records have, every
\* view runs to an end of its own without an error, the department ranking
\* included when Firmaron is absent and Contactos or Entrevistas present.
\* Stated for record sets that have their key columns, a goals table with
\* its columns and working-days values above 0.
C13_ContadoresAusentes ==
    (/\ render.entrada # "none"
     /\ ColumnasClave \subseteq DatosDeLaVista.cols
     /\ {"Reclutador", "Firmaron"} \subseteq tablas["metas"].cols
     /\ ConfigSinCero) =>
        render.res.fin \in {"completa", "aviso"}

\* C14: a script run ends either with the selected view drawn to its end
\* or with a warning or error panel after which nothing of the view is
\* drawn; with both the daily and the weekly record set empty it shows the
\* load error before the sidebar and any view; and no view is entered on
\* an empty record set of the kind it needs.
C14_DosDesenlaces ==
    render.dashboard # "none" =>
        /\ render.res.fin \in {"completa"} \cup Paneles
        /\ (Empty(tablas["metricas_diarias"])
               /\ Empty(tablas["metricas_semanales"])) =>
              /\ render.res.fin = "error_carga"
              /\ ~render.sidebar
              /\ render.entrada = "none"
        /\ render.entrada \in {"departamento", "diario"} =>
              ~Empty(tablas["metricas_diarias"])
        /\ render.entrada \in {"semanal", "mensual"} =>
              ~Empty(tablas["metricas_semanales"])

\* C18: when the daily view calls proyeccion_semanal, the elapsed days
\* (Monday of the selected date's week through the selected date, 1 to 7)
\* do not exceed the total days passed, the recruiter's working days, and
\* the projection is not below the hires accumulated in the week.  Stated
\* for working days above 0.
C18_TranscurridosDentroDelTotal ==
    (/\ render.entrada = "diario"
     /\ render.res.dias_transcurridos > 0
     /\ render.res.dias_laborables > 0) =>
        /\ render.res.dias_transcurridos \in 1..7
        /\ render.res.dias_transcurridos <= render.res.dias_laborables
        /\ render.res.proyeccion.decimos >= 10 * render.res.acumulado_semana

\* C19: the working-days count the daily view divides the weekly goal by
\* (line 493, and line 572 for each metric) is above 0 whatever the
\* configuration table holds: the division is never one by zero.
C19_DivisorPositivo ==
    (render.entrada = "diario" /\ render.res.linea >= 493) =>
        /\ render.res.dias_laborables > 0
        /\ render.res.fin \notin {"ZeroDivisionError", "OverflowError",
                                   "ValueError"}

=============================================================================
